---- MODULE Spec2Model ----
(***************************************************************************)
(* The video compliance audit pipeline: the HTTP entry point audit_video,  *)
(* the two graph nodes index_video_node and audit_content_node, the        *)
(* VideoIndexerService they call, and the merge of each node's update into *)
(* the VideoAuditState.  A text is a sequence of atoms (an atom is a piece *)
(* of text that is never split); the atom "None" is reserved for Python's  *)
(* None and occurs in no text.                                             *)
(***************************************************************************)
EXTENDS Integers, Sequences, FiniteSets, TLC

VARIABLES
    pc,          \* pc[r]: where run r stands
    state,       \* state[r]: the VideoAuditState of run r (only the keys that are set)
    update,      \* update[r]: what the node that ran last returned
    fs,          \* fs[path]: the content of a local file, NoFile when it does not exist
    downloaded,  \* downloaded[r]: the download step of run r wrote (or found) the file
    uploaded,    \* uploaded[r]: the file content run r sent to the indexing service
    polls,       \* polls[r]: status queries issued by wait_for_processing
    job_state,   \* job_state[r]: the state the last status query returned
    vi_json,     \* vi_json[r]: the payload of the status query that said Processed
    calls,       \* calls[r]: how often each node and each collaborator was invoked
    idx_failed,  \* idx_failed[r]: the step of index_video_node that raised
    aud_failed,  \* aud_failed[r]: the step of audit_content_node that raised
    response,    \* response[r]: the raw text the language model returned
    json_input,  \* json_input[r]: the text handed to json.loads
    http         \* http[r]: what audit_video gave its caller

vars == <<pc, state, update, fs, downloaded, uploaded, polls, job_state, vi_json,
          calls, idx_failed, aud_failed, response, json_input, http>>

(* ------------------------------ bounds --------------------------------- *)

\* wait_for_processing loops without a limit; the model stops issuing
\* non-terminal answers after this many status queries.
MaxPolls == 2

\* Longest model response, in atoms, that SpecParse enumerates.
MaxRespLen == 4

\* Most transcript segments, and most on-screen segments, of one video in the
\* job results that SpecExtract enumerates.
MaxSegs == 1

\* Longest errors list and longest compliance_results list of an accumulated
\* state or of a stage update that SpecMerge enumerates.
MaxItems == 1

(* --------------------------- Python values ----------------------------- *)

PyNone == <<"None">>

Unset == <<"unset">>

GetOr(d, k, default) == IF k \in DOMAIN d THEN d[k] ELSE default

EmptyDict == [k \in {} |-> <<>>]

\* The texts run together, the separator left out.
RECURSIVE JoinNoSep(_, _)
JoinNoSep(lines, sep) ==
    IF lines = <<>> THEN <<>> ELSE lines[1] \o JoinNoSep(Tail(lines), sep)

\* str.join: the texts with sep between them.
RECURSIVE Join(_, _)
Join(lines, sep) ==
    IF lines = <<>> THEN <<>>
    ELSE IF Len(lines) = 1 THEN lines[1]
    ELSE lines[1] \o sep \o Join(Tail(lines), sep)

IsPrefix(s, t) == Len(s) <= Len(t) /\ SubSeq(t, 1, Len(s)) = s

Exc(type, msg) == [type |-> type, msg |-> msg]

\* Every exception class the collaborators and the interpreter raise here
\* derives from Exception.
ExceptionClasses ==
    {"Exception", "TypeError", "ValueError", "AttributeError", "OSError",
     "FileNotFoundError", "JSONDecodeError", "ConnectionError"}

(* ------------------------------ inputs --------------------------------- *)

UrlShort == <<"https://", "youtu.be", "/abc123">>
UrlLong == <<"https://www.", "youtube.com", "/watch?v=xyz">>
UrlOther == <<"https://", "vimeo.com", "/42">>
UrlQuery == <<"https://", "vimeo.com", "/42?from=", "youtube.com">>

Urls == {UrlShort, UrlLong, UrlOther, UrlQuery}

\* "x in video_url" on a string: x occurs in it.
Contains(text, x) == \E i \in 1..Len(text) : text[i] = x

Seg(text) == [text |-> text]
SegNoText == [id |-> <<"7">>]

Video(transcript, ocr) == [insights |-> [transcript |-> transcript, ocr |-> ocr]]

Summary == [duration |-> [seconds |-> 15]]

PayloadDemo ==
    [state |-> "Processed",
     videos |-> <<Video(<<Seg(<<"This product guarantees results">>)>>,
                        <<Seg(<<"Limited offer">>)>>)>>,
     summarizedInsights |-> Summary]

PayloadTwo ==
    [state |-> "Processed",
     videos |-> <<Video(<<Seg(<<"a">>), Seg(<<"b">>)>>, <<Seg(<<"x">>)>>),
                  Video(<<Seg(<<"c">>)>>, <<Seg(<<"y">>), Seg(<<"z">>)>>)>>,
     summarizedInsights |-> Summary]

PayloadSilent ==
    [state |-> "Processed", videos |-> <<>>, summarizedInsights |-> Summary]

PayloadNoText ==
    [state |-> "Processed",
     videos |-> <<Video(<<Seg(<<"a">>), SegNoText>>, <<>>)>>,
     summarizedInsights |-> Summary]

PayloadOcrNoText ==
    [state |-> "Processed",
     videos |-> <<Video(<<Seg(<<"a">>)>>, <<SegNoText>>)>>,
     summarizedInsights |-> Summary]

Payloads == {PayloadDemo, PayloadTwo, PayloadSilent, PayloadNoText, PayloadOcrNoText}

\* Every job result of no, one or two videos whose segments are drawn from
\* two texts and a segment without text.
SegChoices == {Seg(<<"a">>), Seg(<<"b">>), SegNoText}

SegSeqs == UNION {[1..n -> SegChoices] : n \in 0..MaxSegs}

VideoChoices == {Video(t, o) : t \in SegSeqs, o \in SegSeqs}

VideoSeqs ==
    {<<>>} \cup {<<v>> : v \in VideoChoices}
           \cup {<<v, w>> : v \in VideoChoices, w \in VideoChoices}

ExtractPayloads ==
    Payloads \cup
    {[state |-> "Processed", videos |-> vs, summarizedInsights |-> Summary] :
        vs \in VideoSeqs}

(* ---------------------------- local files ------------------------------ *)

NoFile == [owner |-> 0, url |-> <<>>]

FileOf(r, url) == [owner |-> r, url |-> url]

local_filename == "temp_audit_video.mp4"

Paths == {local_filename}

RemoveFile(files, path) == [files EXCEPT ![path] = NoFile]

(* --------------------------- VideoAuditState --------------------------- *)

\* A Python value held under compliance_results or errors: a list with its
\* items, or something that is not a list (JSON null).
PyList(items) == [list |-> TRUE, items |-> items]
NotAList == [list |-> FALSE, items |-> <<>>]

Items(v) == v.items

\* The keys annotated with operator.add.
ReducerKeys == {"compliance_results", "errors"}

\* One key of an update applied to the state: operator.add for an annotated
\* key, replacement for the others.
MergeField(k, old, new) ==
    IF k \in ReducerKeys /\ k \in DOMAIN old
    THEN PyList(Items(old[k]) \o Items(new[k]))
    ELSE new[k]

\* operator.add(list, x) raises TypeError unless x is a list.
MergeRaises(old, new) ==
    \E k \in DOMAIN new \cap ReducerKeys : ~new[k].list


\* The update taken as the whole new state.
MergeOverwrite(old, new) == new

Merge(old, new) ==
    [k \in DOMAIN old \cup DOMAIN new |->
        IF k \in DOMAIN new THEN MergeField(k, old, new) ELSE old[k]]


\* The indexer wired to END.
NextNodeToEnd(node) == "END"

\* The edges of the graph: indexer -> auditor -> END.
NextNode(node) == IF node = "indexer" THEN "auditor" ELSE "END"

(* ------------------------- VideoIndexerService ------------------------- *)

JobStates == {"Uploaded", "Processing", "Processed", "Failed", "Quarantined", "None"}


\* The loop without its branch for Failed.
PollVerdictNoFailed(s) ==
    IF s = "Processed" THEN "return"
    ELSE IF s = "Quarantined" THEN "raise_quarantined"
    ELSE "sleep"

\* A quarantined job waited for like a job in progress.
PollVerdictNoQuarantined(s) ==
    IF s = "Processed" THEN "return"
    ELSE IF s = "Failed" THEN "raise_failed"
    ELSE "sleep"

\* A response without a state taken for a failed job.
PollVerdictUnknownFails(s) ==
    IF s = "Processed" THEN "return"
    ELSE IF s \in {"Failed", "None"} THEN "raise_failed"
    ELSE IF s = "Quarantined" THEN "raise_quarantined"
    ELSE "sleep"

\* What wait_for_processing does with the state of one status query.
PollVerdict(s) ==
    IF s = "Processed" THEN "return"
    ELSE IF s = "Failed" THEN "raise_failed"
    ELSE IF s = "Quarantined" THEN "raise_quarantined"
    ELSE "sleep"

SegTexts(segs) == [i \in 1..Len(segs) |-> GetOr(segs[i], "text", PyNone)]

RECURSIVE Lines(_, _)
Lines(videos, kind) ==
    IF videos = <<>> THEN <<>>
    ELSE SegTexts(GetOr(GetOr(videos[1], "insights", EmptyDict), kind, <<>>))
         \o Lines(Tail(videos), kind)

\* " ".join(lines) raises TypeError when an item is None.
JoinRaises(lines) == \E i \in 1..Len(lines) : lines[i] = PyNone

\* The data returned with the id the indexing service gave the video.
extract_dataWithId(vi) ==
    [transcript |-> Join(Lines(GetOr(vi, "videos", <<>>), "transcript"), <<" ">>),
     ocr_text |-> Lines(GetOr(vi, "videos", <<>>), "ocr"),
     video_id |-> <<"azure_", 0>>,
     video_metadata |-> [duration |-> PyNone, platform |-> "youtube"]]

extract_data(vi) ==
    [transcript |-> Join(Lines(GetOr(vi, "videos", <<>>), "transcript"), <<" ">>),
     ocr_text |-> Lines(GetOr(vi, "videos", <<>>), "ocr"),
     video_metadata |->
        [duration |-> GetOr(GetOr(GetOr(vi, "summarizedInsights", EmptyDict),
                                  "duration", EmptyDict), "seconds", PyNone),
         platform |-> "youtube"]]

ExtractRaises(vi) == JoinRaises(Lines(GetOr(vi, "videos", <<>>), "transcript"))

(* ----------------------------- model output ---------------------------- *)

\* The triple-backtick delimiter of a Markdown code block.
Fence == "[triple backtick]"
Tag == "json"
Ws == "\n"
Prose == "Here is the audit."

JPass == "{\"compliance_results\": [], \"status\": \"PASS\", \"final_report\": \"OK\"}"
JCrit == "{\"compliance_results\": [{CRITICAL}], \"status\": \"FAIL\", \"final_report\": \"1 violation\"}"
JNoReport == "{\"compliance_results\": [], \"status\": \"PASS\"}"
JEmpty == "{}"
JReview == "{\"compliance_results\": [{WARNING}], \"status\": \"REVIEW\", \"final_report\": \"check\"}"
JNullResults == "{\"compliance_results\": null, \"status\": \"FAIL\", \"final_report\": \"n/a\"}"
JArray == "[]"
JNoStatus == "{\"compliance_results\": [{CRITICAL}], \"final_report\": \"1 violation\"}"
JNoResults == "{\"status\": \"PASS\", \"final_report\": \"OK\"}"
JBadIssue == "{\"compliance_results\": [{\"category\": \"Claim Validation\"}], \"status\": \"FAIL\", \"final_report\": \"1 violation\"}"

JsonDocs ==
    {JPass, JCrit, JNoReport, JEmpty, JReview, JNullResults, JArray,
     JNoStatus, JNoResults, JBadIssue}

CritIssue ==
    [category |-> "Claim Validation", severity |-> "CRITICAL",
     description |-> "Absolute guarantee"]
WarnIssue ==
    [category |-> "Disclosure", severity |-> "WARNING",
     description |-> "Sponsorship not disclosed"]
\* An entry without severity and description.
BadIssue == [category |-> "Claim Validation"]

Obj(d) == [object |-> TRUE, dict |-> d]
NotObj == [object |-> FALSE, dict |-> EmptyDict]

\* The value each JSON document decodes to.
JsonValue(doc) ==
    CASE doc = JPass ->
           Obj([compliance_results |-> PyList(<<>>), status |-> "PASS",
                final_report |-> "OK"])
      [] doc = JCrit ->
           Obj([compliance_results |-> PyList(<<CritIssue>>), status |-> "FAIL",
                final_report |-> "1 violation"])
      [] doc = JNoReport ->
           Obj([compliance_results |-> PyList(<<>>), status |-> "PASS"])
      [] doc = JEmpty -> Obj(EmptyDict)
      [] doc = JReview ->
           Obj([compliance_results |-> PyList(<<WarnIssue>>), status |-> "REVIEW",
                final_report |-> "check"])
      [] doc = JNullResults ->
           Obj([compliance_results |-> NotAList, status |-> "FAIL",
                final_report |-> "n/a"])
      [] doc = JNoStatus ->
           Obj([compliance_results |-> PyList(<<CritIssue>>),
                final_report |-> "1 violation"])
      [] doc = JNoResults ->
           Obj([status |-> "PASS", final_report |-> "OK"])
      [] doc = JBadIssue ->
           Obj([compliance_results |-> PyList(<<BadIssue>>), status |-> "FAIL",
                final_report |-> "1 violation"])
      [] OTHER -> NotObj

\* json.loads: the text must be exactly one JSON document.
JsonLoadsOk(text) == Len(text) = 1 /\ text[1] \in JsonDocs

json_loads(text) == JsonValue(text[1])

\* str.strip: leading and trailing whitespace removed.
RECURSIVE LStrip(_)
LStrip(text) ==
    IF text # <<>> /\ text[1] = Ws THEN LStrip(Tail(text)) ELSE text

RECURSIVE RStrip(_)
RStrip(text) ==
    IF text # <<>> /\ text[Len(text)] = Ws
    THEN RStrip(SubSeq(text, 1, Len(text) - 1))
    ELSE text

Strip(text) == RStrip(LStrip(text))

\* The first position >= from that holds the fence, 0 when there is none.
RECURSIVE FindFence(_, _)
FindFence(content, from) ==
    IF from > Len(content) THEN 0
    ELSE IF content[from] = Fence THEN from
    ELSE FindFence(content, from + 1)


\* The pattern without its optional tag.
GroupStartNoTag(content, i) == i + 1

\* Where group 1 starts for a match that starts at the fence at i: after
\* the optional tag.
GroupStart(content, i) ==
    IF i < Len(content) /\ content[i + 1] = Tag THEN i + 2 ELSE i + 1

NoMatch == [matched |-> FALSE, group1 |-> <<>>]

\* re.search of fence, optional tag, (.*?), fence, with re.DOTALL: the
\* leftmost match, its group 1 as short as possible.
re_search(content) ==
    LET i == FindFence(content, 1) IN
    IF i = 0 THEN NoMatch
    ELSE LET a == GroupStart(content, i)
             j == FindFence(content, a)
         IN  IF j = 0 THEN NoMatch
             ELSE [matched |-> TRUE, group1 |-> SubSeq(content, a, j - 1)]

\* "Clean Markdown code block if present".
CleanFence(content) ==
    IF Contains(content, Fence) /\ re_search(content).matched
    THEN re_search(content).group1
    ELSE content


\* A missing status taken as a pass.
AuditResultPassDefault(audit_data) ==
    [compliance_results |-> GetOr(audit_data, "compliance_results", PyList(<<>>)),
     final_status |-> GetOr(audit_data, "status", "PASS"),
     final_report |-> GetOr(audit_data, "final_report", "No report generated.")]

\* The verdict read under the key of the state, not the key of the model's object.
AuditResultStateKey(audit_data) ==
    [compliance_results |-> GetOr(audit_data, "compliance_results", PyList(<<>>)),
     final_status |-> GetOr(audit_data, "final_status", "FAIL"),
     final_report |-> GetOr(audit_data, "final_report", "No report generated.")]

\* The dict audit_content_node returns for the decoded object.
AuditResult(audit_data) ==
    [compliance_results |-> GetOr(audit_data, "compliance_results", PyList(<<>>)),
     final_status |-> GetOr(audit_data, "status", "FAIL"),
     final_report |-> GetOr(audit_data, "final_report", "No report generated.")]

\* What the body of the try block raises for a model response, NoExc when
\* it returns.
NoExc == Exc("", "")

ParseExc(content) ==
    LET text == Strip(CleanFence(content)) IN
    IF ~JsonLoadsOk(text) THEN Exc("JSONDecodeError", "Expecting value")
    ELSE IF ~json_loads(text).object
    THEN Exc("AttributeError", "list object has no attribute get")
    ELSE NoExc

ParseResult(content) == AuditResult(json_loads(Strip(CleanFence(content))).dict)

Fenced(doc) == <<Fence, Tag, Ws, doc, Ws, Fence>>

CoreResponses ==
    {<<d>> : d \in JsonDocs}
    \cup {Fenced(JPass), Fenced(JCrit),
          <<Prose, Ws, Fence, Ws, JPass, Ws, Fence, Ws, Prose>>,
          <<Prose>>, <<Fence, Tag, JPass>>, <<>>}

RespAlphabet == {Fence, Tag, Ws, Prose, JPass, JCrit}

SeqsOfLen(S, n) == [1..n -> S]

AllResponses ==
    CoreResponses \cup UNION {SeqsOfLen(RespAlphabet, n) : n \in 0..MaxRespLen}

(* ------------------------------- Init ---------------------------------- *)

NoCalls ==
    [indexer |-> 0, auditor |-> 0, download |-> 0, upload |-> 0,
     search |-> 0, llm |-> 0]

InitOver(Runs) ==
    /\ pc = [r \in Runs |-> "idle"]
    /\ state = [r \in Runs |-> EmptyDict]
    /\ update = [r \in Runs |-> EmptyDict]
    /\ fs = [p \in Paths |-> NoFile]
    /\ downloaded = [r \in Runs |-> FALSE]
    /\ uploaded = [r \in Runs |-> NoFile]
    /\ polls = [r \in Runs |-> 0]
    /\ job_state = [r \in Runs |-> "not queried"]
    /\ vi_json = [r \in Runs |-> EmptyDict]
    /\ calls = [r \in Runs |-> NoCalls]
    /\ idx_failed = [r \in Runs |-> "no"]
    /\ aud_failed = [r \in Runs |-> "no"]
    /\ response = [r \in Runs |-> Unset]
    /\ json_input = [r \in Runs |-> Unset]
    /\ http = [r \in Runs |-> EmptyDict]

Init == InitOver({1})

InitTwo == InitOver({1, 2})

fileVars == <<fs, downloaded, uploaded>>
jobVars == <<polls, job_state, vi_json>>
audVars == <<aud_failed, response, json_input>>

Count(r, what) == calls' = [calls EXCEPT ![r][what] = @ + 1]

(* ----------------------------- audit_video ----------------------------- *)

VideoId(r) == <<"vid_", r>>

\* initial_inputs of audit_video.
InitialInputs(r, url) ==
    [video_url |-> url, video_id |-> VideoId(r),
     compliance_results |-> PyList(<<>>), errors |-> PyList(<<>>)]

\* audit_video up to compliance_graph.invoke: the graph starts at its entry
\* point with the inputs as its state.
AuditVideo(r, U) ==
    /\ pc[r] = "idle"
    /\ \E url \in U : state' = [state EXCEPT ![r] = InitialInputs(r, url)]
    /\ pc' = [pc EXCEPT ![r] = "indexer"]
    /\ UNCHANGED <<update, fileVars, jobVars, calls, idx_failed, audVars, http>>

(* --------------------------- index_video_node -------------------------- *)


\* A narrower except clause: only the errors of the file system are caught.
IndexerCatchesOSError(e) == e.type \in {"OSError", "FileNotFoundError"}

\* except Exception as e.
IndexerCatches(e) == e.type \in ExceptionClasses

\* The dict the except clause returns.
IndexerExcept(e) ==
    [errors |-> PyList(<<e.msg>>), final_status |-> "FAIL",
     transcript |-> <<>>, ocr_text |-> <<>>]

\* An exception raised at a step of the try block.
IndexRaise(r, step, e) ==
    /\ idx_failed' = [idx_failed EXCEPT ![r] = step]
    /\ IF IndexerCatches(e)
       THEN /\ update' = [update EXCEPT ![r] = IndexerExcept(e)]
            /\ pc' = [pc EXCEPT ![r] = "idx_return"]
       ELSE /\ pc' = [pc EXCEPT ![r] = "raised"]
            /\ UNCHANGED update

\* The test on video_url that guards the download.
IsYouTubeUrl(url) == Contains(url, "youtube.com") \/ Contains(url, "youtu.be")

\* Entry of the node and the test of the URL.
IndexValidate(r) ==
    /\ pc[r] = "indexer"
    /\ Count(r, "indexer")
    /\ IF IsYouTubeUrl(state[r].video_url)
       THEN /\ pc' = [pc EXCEPT ![r] = "idx_download"]
            /\ UNCHANGED <<update, idx_failed>>
       ELSE IndexRaise(r, "validate",
                Exc("Exception", "Please provide a valid YouTube URL for this test."))
    /\ UNCHANGED <<state, fileVars, jobVars, audVars, http>>

\* download_youtube_video: the file is written at output_path (a file that is
\* already there is overwritten or kept, as the downloader decides), or the
\* download fails.
IndexDownload(r) ==
    /\ pc[r] = "idx_download"
    /\ Count(r, "download")
    /\ \/ /\ \E content \in {FileOf(r, state[r].video_url)}
                            \cup ({fs[local_filename]} \ {NoFile}) :
                fs' = [fs EXCEPT ![local_filename] = content]
          /\ downloaded' = [downloaded EXCEPT ![r] = TRUE]
          /\ pc' = [pc EXCEPT ![r] = "idx_upload"]
          /\ UNCHANGED <<update, idx_failed>>
       \/ /\ IndexRaise(r, "download", Exc("Exception", "YouTube Download Failed: ..."))
          /\ UNCHANGED <<fs, downloaded>>
    /\ UNCHANGED <<state, uploaded, jobVars, audVars, http>>

\* upload_video: the tokens, the file opened and posted, the answer.
IndexUpload(r) ==
    /\ pc[r] = "idx_upload"
    /\ Count(r, "upload")
    /\ \/ /\ IndexRaise(r, "upload",
                Exc("Exception", "Failed to get VI Account Token: ..."))
          /\ UNCHANGED uploaded
       \/ IF fs[local_filename] = NoFile
          THEN /\ IndexRaise(r, "upload",
                     Exc("FileNotFoundError",
                         "No such file or directory: temp_audit_video.mp4"))
               /\ UNCHANGED uploaded
          ELSE /\ uploaded' = [uploaded EXCEPT ![r] = fs[local_filename]]
               /\ \E ok \in BOOLEAN :
                     IF ok
                     THEN /\ pc' = [pc EXCEPT ![r] = "idx_exists"]
                          /\ UNCHANGED <<update, idx_failed>>
                     ELSE IndexRaise(r, "upload",
                              Exc("Exception", "Azure Upload Failed: ..."))
    /\ UNCHANGED <<state, fs, downloaded, jobVars, audVars, http>>

\* if os.path.exists(local_path):
IndexExists(r) ==
    /\ pc[r] = "idx_exists"
    /\ pc' = [pc EXCEPT ![r] =
                IF fs[local_filename] # NoFile THEN "idx_remove" ELSE "idx_poll"]
    /\ UNCHANGED <<state, update, fileVars, jobVars, calls, idx_failed, audVars, http>>

\* os.remove(local_path)
IndexRemove(r) ==
    /\ pc[r] = "idx_remove"
    /\ IF fs[local_filename] = NoFile
       THEN /\ IndexRaise(r, "remove",
                  Exc("FileNotFoundError",
                      "No such file or directory: temp_audit_video.mp4"))
            /\ UNCHANGED fs
       ELSE \E ok \in BOOLEAN :
               IF ok
               THEN /\ fs' = RemoveFile(fs, local_filename)
                    /\ pc' = [pc EXCEPT ![r] = "idx_poll"]
                    /\ UNCHANGED <<update, idx_failed>>
               ELSE /\ IndexRaise(r, "remove",
                          Exc("OSError", "Permission denied: temp_audit_video.mp4"))
                    /\ UNCHANGED fs
    /\ UNCHANGED <<state, downloaded, uploaded, jobVars, calls, audVars, http>>

\* One round of the loop of wait_for_processing: the tokens, the status
\* query, and what its state leads to.
IndexPoll(r, P) ==
    /\ pc[r] = "idx_poll"
    /\ \/ /\ IndexRaise(r, "poll", Exc("Exception", "Failed to get VI Account Token: ..."))
          /\ UNCHANGED jobVars
       \/ \E s \in JobStates :
          /\ polls' = [polls EXCEPT ![r] = @ + 1]
          /\ job_state' = [job_state EXCEPT ![r] = s]
          /\ CASE PollVerdict(s) = "return" ->
                    /\ \E p \in P : vi_json' = [vi_json EXCEPT ![r] = p]
                    /\ pc' = [pc EXCEPT ![r] = "idx_extract"]
                    /\ UNCHANGED <<update, idx_failed>>
               [] PollVerdict(s) = "raise_failed" ->
                    /\ IndexRaise(r, "poll", Exc("Exception", "Video Indexing Failed in Azure."))
                    /\ UNCHANGED vi_json
               [] PollVerdict(s) = "raise_quarantined" ->
                    /\ IndexRaise(r, "poll",
                          Exc("Exception", "Video Quarantined (Copyright/Content Policy Violation)."))
                    /\ UNCHANGED vi_json
               [] OTHER ->
                    /\ polls[r] < MaxPolls
                    /\ UNCHANGED <<pc, update, idx_failed, vi_json>>
    /\ UNCHANGED <<state, fileVars, calls, audVars, http>>

\* extract_data and the return of clean_data.
IndexExtract(r) ==
    /\ pc[r] = "idx_extract"
    /\ IF ExtractRaises(vi_json[r])
       THEN IndexRaise(r, "extract",
                Exc("TypeError", "sequence item: expected str instance, NoneType found"))
       ELSE /\ update' = [update EXCEPT ![r] = extract_data(vi_json[r])]
            /\ pc' = [pc EXCEPT ![r] = "idx_return"]
            /\ UNCHANGED idx_failed
    /\ UNCHANGED <<state, fileVars, jobVars, calls, audVars, http>>

(* ------------------------------ the graph ------------------------------ *)

NodeAt(p) == IF p = "idx_return" THEN "indexer" ELSE "auditor"

\* A node has returned: its update is merged into the state and the edge
\* out of the node is followed; a reducer that raises fails the invocation.
GraphStep(r) ==
    /\ pc[r] \in {"idx_return", "aud_return"}
    /\ IF MergeRaises(state[r], update[r])
       THEN /\ pc' = [pc EXCEPT ![r] = "raised"]
            /\ UNCHANGED state
       ELSE /\ state' = [state EXCEPT ![r] = Merge(state[r], update[r])]
            /\ pc' = [pc EXCEPT ![r] = NextNode(NodeAt(pc[r]))]
    /\ UNCHANGED <<update, fileVars, jobVars, calls, idx_failed, audVars, http>>

(* -------------------------- audit_content_node ------------------------- *)


\* A test for None in place of the test for falsiness.
NoTranscriptIsNone(st) == GetOr(st, "transcript", PyNone) = PyNone

\* "if not transcript": the transcript is missing, None or empty.
NoTranscript(st) == GetOr(st, "transcript", <<>>) \in {<<>>, PyNone}

\* A skipped audit reported as a pass.
AuditSkippedPass ==
    [final_status |-> "PASS",
     final_report |-> "Audit skipped because video processing failed (No Transcript)."]

\* A skipped audit that records an error of its own.
AuditSkippedWithError ==
    [errors |-> PyList(<<"No transcript">>), final_status |-> "FAIL",
     final_report |-> "Audit skipped because video processing failed (No Transcript)."]

\* The dict returned when there is no transcript.
AuditSkipped ==
    [final_status |-> "FAIL",
     final_report |-> "Audit skipped because video processing failed (No Transcript)."]

\* The steps of the node that stand inside its try block.
AuditTryCovers(step) == step \in {"llm", "fence", "decode", "extract"}

\* The failure returned with an empty result list and a report of its own.
AuditorExceptWithReport(e) ==
    [errors |-> PyList(<<e.msg>>), final_status |-> "FAIL",
     compliance_results |-> PyList(<<>>), final_report |-> e.msg]

\* The dict the except clause returns.
AuditorExcept(e) == [errors |-> PyList(<<e.msg>>), final_status |-> "FAIL"]

\* An exception raised at a step of the node.
AuditRaise(r, step, e) ==
    /\ aud_failed' = [aud_failed EXCEPT ![r] = step]
    /\ IF AuditTryCovers(step)
       THEN /\ update' = [update EXCEPT ![r] = AuditorExcept(e)]
            /\ pc' = [pc EXCEPT ![r] = "aud_return"]
       ELSE /\ pc' = [pc EXCEPT ![r] = "raised"]
            /\ UNCHANGED update

\* Entry of the node: the test of the transcript, then the clients, which
\* need AZURE_OPENAI_EMBEDDING_DEPLOYMENT to be set.
AuditStart(r) ==
    /\ pc[r] = "auditor"
    /\ Count(r, "auditor")
    /\ IF NoTranscript(state[r])
       THEN /\ update' = [update EXCEPT ![r] = AuditSkipped]
            /\ pc' = [pc EXCEPT ![r] = "aud_return"]
            /\ UNCHANGED aud_failed
       ELSE \E embedding_deployment \in BOOLEAN :
               IF embedding_deployment
               THEN /\ pc' = [pc EXCEPT ![r] = "aud_search"]
                    /\ UNCHANGED <<update, aud_failed>>
               ELSE AuditRaise(r, "config",
                        Exc("ValueError",
                            "AZURE_OPENAI_EMBEDDING_DEPLOYMENT is not set in environment!"))
    /\ UNCHANGED <<state, fileVars, jobVars, idx_failed, response, json_input, http>>

\* query_text and vector_store.similarity_search(query_text, k=3).
AuditSearch(r) ==
    /\ pc[r] = "aud_search"
    /\ IF JoinRaises(GetOr(state[r], "ocr_text", <<>>))
       THEN /\ AuditRaise(r, "query",
                  Exc("TypeError", "sequence item: expected str instance, NoneType found"))
            /\ UNCHANGED calls
       ELSE /\ Count(r, "search")
            /\ \E ok \in BOOLEAN :
                  IF ok
                  THEN /\ pc' = [pc EXCEPT ![r] = "aud_invoke"]
                       /\ UNCHANGED <<update, aud_failed>>
                  ELSE AuditRaise(r, "search", Exc("ConnectionError", "search failed"))
    /\ UNCHANGED <<state, fileVars, jobVars, idx_failed, response, json_input, http>>

\* llm.invoke and the rest of the try block: the fence, json.loads, the
\* three keys.
AuditInvoke(r, R) ==
    /\ pc[r] = "aud_invoke"
    /\ Count(r, "llm")
    /\ \/ /\ AuditRaise(r, "llm", Exc("ConnectionError", "model call failed"))
          /\ UNCHANGED <<response, json_input>>
       \/ \E content \in R :
          /\ response' = [response EXCEPT ![r] = content]
          /\ json_input' = [json_input EXCEPT ![r] = Strip(CleanFence(content))]
          /\ IF ParseExc(content) # NoExc
             THEN AuditRaise(r,
                      IF ParseExc(content).type = "JSONDecodeError"
                      THEN "decode" ELSE "extract",
                      ParseExc(content))
             ELSE /\ update' = [update EXCEPT ![r] = ParseResult(content)]
                  /\ pc' = [pc EXCEPT ![r] = "aud_return"]
                  /\ UNCHANGED aud_failed
    /\ UNCHANGED <<state, fileVars, jobVars, idx_failed, http>>

(* ------------------------ audit_video, the answer ---------------------- *)

IssueKeys == {"category", "severity", "description"}

\* AuditResponse built from the final state.
AuditResponse(r, final_state) ==
    [code |-> "200",
     video_id |-> GetOr(final_state, "video_id", PyNone),
     status |-> GetOr(final_state, "final_status", "UNKNOWN"),
     final_report |-> GetOr(final_state, "final_report", "No report generated."),
     compliance_results |-> Items(GetOr(final_state, "compliance_results", PyList(<<>>)))]

\* The response model accepts the fields.
ResponseValid(resp) ==
    \A i \in 1..Len(resp.compliance_results) :
        IssueKeys \subseteq DOMAIN resp.compliance_results[i]

Http500 == [code |-> "500", detail |-> "Workflow Execution Failed"]

\* compliance_graph.invoke has returned or raised: the response, or the
\* HTTPException.
Respond(r) ==
    /\ pc[r] \in {"END", "raised"}
    /\ http' = [http EXCEPT ![r] =
                  IF pc[r] = "END" /\ ResponseValid(AuditResponse(r, state[r]))
                  THEN AuditResponse(r, state[r])
                  ELSE Http500]
    /\ pc' = [pc EXCEPT ![r] = "done"]
    /\ UNCHANGED <<state, update, fileVars, jobVars, calls, idx_failed, audVars>>

(* ------------------------------- Next ---------------------------------- *)

Step(r, U, P, R) ==
    \/ AuditVideo(r, U)
    \/ IndexValidate(r)
    \/ IndexDownload(r)
    \/ IndexUpload(r)
    \/ IndexExists(r)
    \/ IndexRemove(r)
    \/ IndexPoll(r, P)
    \/ IndexExtract(r)
    \/ GraphStep(r)
    \/ AuditStart(r)
    \/ AuditSearch(r)
    \/ AuditInvoke(r, R)
    \/ Respond(r)

Next == \E r \in {1} : Step(r, Urls, Payloads, CoreResponses)

\* One request at a time.
Spec == Init /\ [][Next]_vars

\* One request whose next step is always taken in the end: every call
\* returns, and the job reports a terminal state after MaxPolls queries at
\* the latest.
SpecFair == Init /\ [][Next]_vars /\ WF_vars(Next)

\* One request, every model response up to MaxRespLen atoms.
NextParse == \E r \in {1} : Step(r, {UrlShort}, {PayloadDemo}, AllResponses)

SpecParse == Init /\ [][NextParse]_vars

\* Two requests at the same time, in one working directory.
NextTwo == \E r \in {1, 2} : Step(r, {UrlShort, UrlLong}, {PayloadDemo}, {<<JPass>>})

SpecTwo == InitTwo /\ [][NextTwo]_vars

(* The reducers alone: two executions start from the same accumulated state
   and are handed the same two stage updates, the first execution its own
   update first, the second execution the other one first. *)

ErrorLists ==
    UNION {[1..n -> {"Video Indexing Failed in Azure.", "Expecting value"}] :
             n \in 0..MaxItems}

IssueLists == UNION {[1..n -> {CritIssue, WarnIssue}] : n \in 0..MaxItems}

\* A state as the graph holds it between two nodes.
Accumulated ==
    {[InitialInputs(1, UrlShort) EXCEPT
        !.errors = PyList(es), !.compliance_results = PyList(cs)] :
       es \in ErrorLists, cs \in IssueLists}

\* What a node returns: a failure with its errors, or a verdict with its
\* compliance_results.
StageUpdates ==
    {[errors |-> PyList(es), final_status |-> "FAIL"] : es \in ErrorLists}
    \cup {[compliance_results |-> PyList(cs), final_status |-> "FAIL",
           final_report |-> "n/a"] : cs \in IssueLists}

InitMerge ==
    /\ pc = [r \in {1, 2} |-> "merge_none"]
    /\ \E acc \in Accumulated : state = [r \in {1, 2} |-> acc]
    /\ \E u1 \in StageUpdates, u2 \in StageUpdates : update = <<u1, u2>>
    /\ fs = [p \in Paths |-> NoFile]
    /\ downloaded = [r \in {1, 2} |-> FALSE]
    /\ uploaded = [r \in {1, 2} |-> NoFile]
    /\ polls = [r \in {1, 2} |-> 0]
    /\ job_state = [r \in {1, 2} |-> "not queried"]
    /\ vi_json = [r \in {1, 2} |-> EmptyDict]
    /\ calls = [r \in {1, 2} |-> NoCalls]
    /\ idx_failed = [r \in {1, 2} |-> "no"]
    /\ aud_failed = [r \in {1, 2} |-> "no"]
    /\ response = [r \in {1, 2} |-> Unset]
    /\ json_input = [r \in {1, 2} |-> Unset]
    /\ http = [r \in {1, 2} |-> EmptyDict]

\* Execution r merges its own update.
MergeOwn(r) ==
    /\ pc[r] = "merge_none"
    /\ ~MergeRaises(state[r], update[r])
    /\ state' = [state EXCEPT ![r] = Merge(state[r], update[r])]
    /\ pc' = [pc EXCEPT ![r] = "merge_one"]
    /\ UNCHANGED <<update, fileVars, jobVars, calls, idx_failed, audVars, http>>

\* Execution r merges the update of the other execution.
MergeOther(r) ==
    /\ pc[r] = "merge_one"
    /\ ~MergeRaises(state[r], update[3 - r])
    /\ state' = [state EXCEPT ![r] = Merge(state[r], update[3 - r])]
    /\ pc' = [pc EXCEPT ![r] = "merge_both"]
    /\ UNCHANGED <<update, fileVars, jobVars, calls, idx_failed, audVars, http>>

NextMerge == \E r \in {1, 2} : MergeOwn(r) \/ MergeOther(r)

SpecMerge == InitMerge /\ [][NextMerge]_vars

\* One request, every job result of ExtractPayloads.
NextExtract == \E r \in {1} : Step(r, {UrlShort}, ExtractPayloads, {<<JPass>>})

SpecExtract == Init /\ [][NextExtract]_vars

(* ------------------------------ properties ----------------------------- *)

Runs == DOMAIN pc

InIndexer == {"idx_download", "idx_upload", "idx_exists", "idx_remove", "idx_poll",
              "idx_extract"}

IndexerReturned == {"idx_return", "auditor", "aud_search", "aud_invoke",
                    "aud_return", "END", "raised", "done"}

Errors(d) == Items(d.errors)

\* C1: a failure at any step of the Indexing Stage does not escape the stage:
\* the stage returns, and what it returns is exactly errors = [one message],
\* final_status = FAIL, transcript = "", ocr_text = [].
C1_IndexerBoundary ==
    \A r \in Runs :
        idx_failed[r] # "no" =>
            /\ pc[r] \notin InIndexer \cup {"raised"}
            /\ pc[r] = "idx_return" =>
                 /\ DOMAIN update[r] = {"errors", "final_status", "transcript", "ocr_text"}
                 /\ update[r].errors.list
                 /\ Len(Errors(update[r])) = 1
                 /\ update[r].final_status = "FAIL"
                 /\ update[r].transcript = <<>>
                 /\ update[r].ocr_text = <<>>

C1_Witness ==
    \E r \in Runs : idx_failed[r] = "extract" /\ pc[r] = "idx_return"

\* C2: whenever the Indexing Stage has returned after its download step
\* created the local file, the file no longer exists.
C2_FileRemovedOnEveryExit ==
    \A r \in Runs :
        (downloaded[r] /\ pc[r] \in IndexerReturned) => fs[local_filename] = NoFile

\* C3: an exception raised by the retrieval, the model call or the decoding
\* of the model output does not escape the Audit Stage: the stage returns
\* errors = [message], final_status = FAIL.
C3_AuditorBoundary ==
    \A r \in Runs :
        aud_failed[r] \in {"search", "llm", "decode", "extract"} =>
            /\ pc[r] # "raised"
            /\ pc[r] = "aud_return" =>
                 /\ DOMAIN update[r] = {"errors", "final_status"}
                 /\ Len(Errors(update[r])) = 1
                 /\ update[r].final_status = "FAIL"

TranscriptEmpty(r) ==
    "transcript" \notin DOMAIN state[r] \/ state[r].transcript = <<>>

\* C4: in a run whose transcript is empty or absent, no retrieval call and no
\* model call is ever made, and the Audit Stage returns final_status = FAIL
\* with a final_report.
C4_EmptyTranscriptShortCircuit ==
    \A r \in Runs :
        TranscriptEmpty(r) =>
            /\ calls[r].search = 0
            /\ calls[r].llm = 0
            /\ pc[r] \notin {"aud_search", "aud_invoke", "raised"}
            /\ pc[r] = "aud_return" =>
                 /\ DOMAIN update[r] = {"final_status", "final_report"}
                 /\ update[r].final_status = "FAIL"
            /\ pc[r] = "END" =>
                 /\ state[r].final_status = "FAIL"
                 /\ "final_report" \in DOMAIN state[r]

C4_Witness ==
    \E r \in Runs :
        /\ pc[r] = "END"
        /\ idx_failed[r] = "no"
        /\ state[r].transcript = <<>>

C6_SinglePath ==
    \A r \in Runs :
        /\ calls[r].indexer <= 1
        /\ calls[r].auditor <= 1
        /\ calls[r].auditor = 1 =>
              calls[r].indexer = 1 /\ "transcript" \in DOMAIN state[r]
        /\ pc[r] = "END" => calls[r].indexer = 1 /\ calls[r].auditor = 1
        /\ (idx_failed[r] # "no" /\ pc[r] \in {"END", "done"}) => calls[r].auditor = 1
        /\ idx_failed[r] # "no" => pc[r] # "raised"

C6_Witness ==
    \E r \in Runs :
        pc[r] = "END" /\ idx_failed[r] # "no" /\ calls[r].auditor = 1

Started(r) == pc[r] # "idle"

DifferentUrls ==
    \A r1, r2 \in Runs :
        (r1 # r2 /\ Started(r1) /\ Started(r2)) =>
            state[r1].video_url # state[r2].video_url

\* C7: for runs with different video_url values, a run that has downloaded
\* and not yet uploaded finds the file it downloaded, and the file a run
\* uploads is the one it downloaded.
C7_NoCrossContamination ==
    DifferentUrls =>
        \A r \in Runs :
            /\ pc[r] = "idx_upload" =>
                  fs[local_filename] = FileOf(r, state[r].video_url)
            /\ uploaded[r] # NoFile =>
                  uploaded[r] = FileOf(r, state[r].video_url)

\* C8: once a status query has returned Failed or Quarantined the Indexing
\* Stage returns final_status = FAIL with a non-empty errors, and the local
\* file is gone when it returns.
C8_JobFailedOrQuarantined ==
    \A r \in Runs :
        job_state[r] \in {"Failed", "Quarantined"} =>
            /\ pc[r] \notin InIndexer \cup {"raised"}
            /\ pc[r] = "idx_return" =>
                 /\ update[r].final_status = "FAIL"
                 /\ Errors(update[r]) # <<>>
                 /\ fs[local_filename] = NoFile

C8_Witness ==
    \E r \in Runs : job_state[r] = "Quarantined" /\ pc[r] = "idx_return"

\* C9: when the model has returned and what is decoded is a JSON object with
\* a status S and an issue list L, the run ends with final_status = S and
\* compliance_results = the caller's empty list extended by L; one CRITICAL
\* issue with status FAIL gives FAIL and exactly one entry, of severity CRITICAL.
C9_EndToEnd ==
    \A r \in Runs : \A doc \in JsonDocs :
        ( /\ pc[r] \in {"END", "done"}
          /\ response[r] # Unset
          /\ json_input[r] = <<doc>>
          /\ JsonValue(doc).object
          /\ {"status", "compliance_results"} \subseteq DOMAIN JsonValue(doc).dict
          /\ JsonValue(doc).dict.compliance_results.list )
        =>
        /\ state[r].final_status = JsonValue(doc).dict.status
        /\ state[r].compliance_results =
              PyList(<<>> \o Items(JsonValue(doc).dict.compliance_results))
        /\ doc = JCrit =>
              /\ state[r].final_status = "FAIL"
              /\ Len(Items(state[r].compliance_results)) = 1
              /\ Items(state[r].compliance_results)[1].severity = "CRITICAL"

C9_Witness ==
    \E r \in Runs :
        /\ pc[r] = "END"
        /\ state[r].video_url = UrlShort
        /\ vi_json[r] = PayloadDemo
        /\ response[r] = <<JCrit>>
        /\ state[r].final_status = "FAIL"

FencePositions(c) == {i \in 1..Len(c) : c[i] = Fence}

Least(S) == CHOOSE i \in S : \A j \in S : i <= j

\* What stands between the first two fences, without the tag that may follow
\* the first one.
FirstBlock(c) ==
    LET i == Least(FencePositions(c))
        j == Least(FencePositions(c) \ {i})
        inner == SubSeq(c, i + 1, j - 1)
    IN  IF inner # <<>> /\ inner[1] = Tag THEN Tail(inner) ELSE inner

\* The text without the whitespace around it.
Trimmed(t) ==
    LET Solid == {i \in 1..Len(t) : t[i] # Ws}
    IN  IF Solid = {} THEN <<>>
        ELSE SubSeq(t, Least(Solid), CHOOSE i \in Solid : \A j \in Solid : j <= i)

\* C10: for a model response with a fenced block, what is decoded is the
\* content of the (first) fence, not the text around it; a fence that holds
\* the PASS object gives final_status = PASS and no compliance_results; with
\* no fence the raw text is decoded.
C10_FencedContentDecoded ==
    \A r \in Runs :
        response[r] # Unset =>
            /\ Cardinality(FencePositions(response[r])) >= 2 =>
                 /\ json_input[r] = Trimmed(FirstBlock(response[r]))
                 /\ (Trimmed(FirstBlock(response[r])) = <<JPass>> /\ pc[r] = "aud_return") =>
                       /\ update[r].final_status = "PASS"
                       /\ update[r].compliance_results = PyList(<<>>)
            /\ FencePositions(response[r]) = {} =>
                 json_input[r] = Trimmed(response[r])

C10_Witness ==
    \E r \in Runs :
        /\ response[r] = <<JCrit, Fence, JPass, Fence>>
        /\ pc[r] = "END"
        /\ state[r].final_status = "PASS"
        /\ state[r].compliance_results = PyList(<<>>)

\* The object that was decoded in run r, when one was.
Decoded(r) == JsonValue(json_input[r][1]).dict

DecodedObject(r) ==
    /\ response[r] # Unset
    /\ Len(json_input[r]) = 1
    /\ json_input[r][1] \in JsonDocs
    /\ JsonValue(json_input[r][1]).object

\* C11: when the decoded object lacks a key the Audit Stage does not fail: it
\* returns the empty sequence for a missing compliance_results, FAIL for a
\* missing status, "No report generated." for a missing final_report, every
\* key that is present unchanged, and no errors entry.
C11_MissingKeysDefault ==
    \A r \in Runs :
        DecodedObject(r) =>
            /\ aud_failed[r] = "no"
            /\ pc[r] = "aud_return" =>
                 /\ DOMAIN update[r] = {"compliance_results", "final_status", "final_report"}
                 /\ update[r].compliance_results =
                       IF "compliance_results" \in DOMAIN Decoded(r)
                       THEN Decoded(r).compliance_results ELSE PyList(<<>>)
                 /\ update[r].final_status =
                       IF "status" \in DOMAIN Decoded(r)
                       THEN Decoded(r).status ELSE "FAIL"
                 /\ update[r].final_report =
                       IF "final_report" \in DOMAIN Decoded(r)
                       THEN Decoded(r).final_report ELSE "No report generated."
            /\ pc[r] = "END" => Errors(state[r]) = <<>>

C11_Witness ==
    \E r \in Runs :
        /\ pc[r] = "END"
        /\ json_input[r] = <<JNoReport>>
        /\ state[r].final_report = "No report generated."
        /\ state[r].final_status = "PASS"

\* The segments of one kind of a job result, video after video.
RECURSIVE AllSegs(_, _)
AllSegs(videos, kind) ==
    IF videos = <<>> THEN <<>>
    ELSE AllSegs(SubSeq(videos, 1, Len(videos) - 1), kind)
         \o videos[Len(videos)].insights[kind]

HasText(seg) == "text" \in DOMAIN seg

RECURSIVE TextsPresent(_)
TextsPresent(segs) ==
    IF segs = <<>> THEN <<>>
    ELSE TextsPresent(SubSeq(segs, 1, Len(segs) - 1))
         \o (IF HasText(segs[Len(segs)]) THEN <<segs[Len(segs)].text>> ELSE <<>>)

\* The texts with one space between neighbours.
RECURSIVE Spaced(_)
Spaced(texts) ==
    IF texts = <<>> THEN <<>>
    ELSE IF Len(texts) = 1 THEN texts[1]
    ELSE Spaced(SubSeq(texts, 1, Len(texts) - 1)) \o <<" ">> \o texts[Len(texts)]

\* The text field of each segment, None where a segment has none.
TextFields(segs) ==
    [i \in 1..Len(segs) |-> IF HasText(segs[i]) THEN segs[i].text ELSE PyNone]

\* The Indexing Stage of run r has been handed a job result.
GotPayload(r) == pc[r] = "idx_return" /\ job_state[r] = "Processed"

\* C12: for every job result the transcript the Indexing Stage returns is the
\* texts of the transcript segments, in job-result order across the videos,
\* joined by single spaces, and ocr_text is the list of the on-screen texts in
\* the same order (None standing for a text that is missing).
C12_TranscriptJoined ==
    \A r \in Runs :
        GotPayload(r) =>
            /\ update[r].transcript =
                  Spaced(TextsPresent(AllSegs(vi_json[r].videos, "transcript")))
            /\ update[r].ocr_text = TextFields(AllSegs(vi_json[r].videos, "ocr"))

\* C12, amended: the same for every job result whose transcript segments all
\* carry a text, and the stage does not fail on such a job result.
C12_TranscriptJoinedWhenTexts ==
    \A r \in Runs :
        ( /\ GotPayload(r)
          /\ \A i \in 1..Len(AllSegs(vi_json[r].videos, "transcript")) :
                HasText(AllSegs(vi_json[r].videos, "transcript")[i]) ) =>
            /\ idx_failed[r] = "no"
            /\ update[r].transcript =
                  Spaced(TextsPresent(AllSegs(vi_json[r].videos, "transcript")))
            /\ update[r].ocr_text = TextFields(AllSegs(vi_json[r].videos, "ocr"))

C12_Witness ==
    \E r \in Runs :
        /\ GotPayload(r)
        /\ vi_json[r] = PayloadTwo
        /\ update[r].transcript = <<"a", " ", "b", " ", "c">>
        /\ update[r].ocr_text = << <<"x">>, <<"y">>, <<"z">> >>

\* Both stages of run r returned to the graph, the Audit Stage with
\* final_status = FAIL.
StagesReturnedFail(r) ==
    /\ calls[r].indexer = 1
    /\ calls[r].auditor = 1
    /\ aud_failed[r] \notin {"config", "query", "search"}
    /\ "final_status" \in DOMAIN update[r]
    /\ update[r].final_status = "FAIL"

\* C13: the caller gets either the error outcome, HTTP 500 "Workflow Execution
\* Failed" without a State Record, or a normal response carrying final_status,
\* never both; an exception that escaped the graph gives the error outcome,
\* and a run whose stages all returned normally with final_status = FAIL never
\* gives it.
C13_PipelineFailureDistinct ==
    \A r \in Runs :
        pc[r] = "done" =>
            /\ \/ http[r] = Http500
               \/ /\ http[r].code = "200"
                  /\ DOMAIN http[r] =
                        {"code", "video_id", "status", "final_report", "compliance_results"}
            /\ StagesReturnedFail(r) => http[r] # Http500

\* The failures of run r that are collaborator or configuration failures.
FailedRun(r) ==
    \/ idx_failed[r] # "no"
    \/ aud_failed[r] \in {"config", "search", "llm", "decode"}

\* C14: a run in which the URL was unsupported, the download, the upload or
\* the job failed, the embedding deployment was missing, the retrieval or the
\* model call raised, or the model output could not be decoded, raises nothing
\* to the caller and ends with final_status set and with a final_report or a
\* non-empty errors list.
C14_FailedRunWellFormed ==
    \A r \in Runs :
        FailedRun(r) =>
            /\ pc[r] # "raised"
            /\ pc[r] = "END" =>
                 /\ "final_status" \in DOMAIN state[r]
                 /\ \/ "final_report" \in DOMAIN state[r]
                    \/ Errors(state[r]) # <<>>
            /\ pc[r] = "done" => http[r].code = "200"

StatusDomain == {"PASS", "FAIL", "UNKNOWN"}

\* C15: in the final state of every completed run, and in the response built
\* from it, final_status is one of PASS, FAIL, UNKNOWN, whatever text the
\* model returned as its status.
C15_StatusDomain ==
    \A r \in Runs :
        /\ pc[r] = "END" => GetOr(state[r], "final_status", "UNKNOWN") \in StatusDomain
        /\ (pc[r] = "done" /\ http[r].code = "200") => http[r].status \in StatusDomain

InputKeys == {"video_url", "video_id"}

\* C16: video_url and video_id are never changed by a stage: a run starts with
\* the caller's values, no stage update carries either key, and every step
\* leaves both as they were, from the start to END and the response.
C16_InputsImmutable ==
    [][\A r \in Runs :
          /\ (pc[r] = "idle" /\ pc'[r] # "idle") =>
                /\ state'[r].video_url \in Urls
                /\ state'[r].video_id = VideoId(r)
          /\ Started(r) =>
                /\ InputKeys \subseteq DOMAIN state'[r]
                /\ state'[r].video_url = state[r].video_url
                /\ state'[r].video_id = state[r].video_id
          /\ DOMAIN update'[r] \cap InputKeys = {}]_vars

C16_Witness ==
    \E r \in Runs :
        /\ pc[r] = "END"
        /\ idx_failed[r] = "no"
        /\ aud_failed[r] = "llm"
        /\ state[r].video_url = UrlLong
        /\ state[r].video_id = VideoId(r)

JobLost == {"Failed", "Quarantined"}

\* C17: the Indexing Stage returns extracted data only after a status query
\* answered Processed, and the data are those of the payload of that query; a
\* query answered Failed or Quarantined makes the stage fail in the same step,
\* and no query of the run follows it.
C17_PollOutcomes ==
    [][\A r \in Runs :
          /\ (pc'[r] = "idx_return" /\ idx_failed'[r] = "no") =>
                /\ job_state'[r] = "Processed"
                /\ update'[r].transcript =
                      Spaced(TextsPresent(AllSegs(vi_json'[r].videos, "transcript")))
                /\ update'[r].ocr_text = TextFields(AllSegs(vi_json'[r].videos, "ocr"))
          /\ vi_json'[r] # vi_json[r] =>
                /\ job_state'[r] = "Processed"
                /\ polls'[r] = polls[r] + 1
          /\ (polls'[r] # polls[r] /\ job_state'[r] \in JobLost) =>
                /\ pc'[r] = "idx_return"
                /\ idx_failed'[r] = "poll"
          /\ job_state[r] \in JobLost =>
                /\ polls'[r] = polls[r]
                /\ job_state'[r] = job_state[r]
                /\ pc[r] \notin InIndexer]_vars

C17_Witness ==
    \E r \in Runs :
        /\ pc[r] = "idx_return"
        /\ idx_failed[r] = "no"
        /\ job_state[r] = "Processed"
        /\ polls[r] > 1
        /\ vi_json[r] = PayloadTwo

TerminalStates == {"Processed", "Failed", "Quarantined"}

\* C18: the poll loop counts nothing and times nothing out: a status query
\* answered with anything but Processed, Failed or Quarantined (Uploaded,
\* Processing, no state at all) leaves the run in the loop, about to wait and
\* query again, whatever the number of queries so far; the run leaves the loop
\* only on a terminal answer or on an exception of the query itself, so a job
\* that never reports a terminal state keeps the run from reaching END.
C18_UnboundedPolling ==
    [][\A r \in Runs :
          /\ (polls'[r] = polls[r] + 1 /\ job_state'[r] \notin TerminalStates) =>
                /\ pc'[r] = "idx_poll"
                /\ idx_failed'[r] = idx_failed[r]
                /\ update'[r] = update[r]
          /\ (pc[r] = "idx_poll" /\ pc'[r] # "idx_poll") =>
                \/ polls'[r] = polls[r] + 1 /\ job_state'[r] \in TerminalStates
                \/ /\ polls'[r] = polls[r]
                   /\ idx_failed'[r] = "poll"
                   /\ pc'[r] = "idx_return"
          /\ pc'[r] = "END" =>
                \/ job_state'[r] \in TerminalStates
                \/ idx_failed'[r] # "no"]_vars

\* A run still in the loop after MaxPolls queries, the last one answered
\* without a state.
C18_Witness ==
    \E r \in Runs :
        /\ pc[r] = "idx_poll"
        /\ polls[r] = MaxPolls
        /\ job_state[r] = "None"

\* C19: when every collaborator call returns and the job reports a terminal
\* state in the end, the run reaches END, under weak fairness of its steps.
C19_Termination == \A r \in {1} : <>(pc[r] = "END")

\* The host of a URL is its second part; the supported platform family is
\* the one whose hosts are youtube.com and youtu.be.
SupportedPlatform(url) == url[2] \in {"youtube.com", "youtu.be"}

\* C20: a run whose video_url is not of the supported platform family fails in
\* the Indexing Stage without a download, an upload or a status query, and
\* without a local file being created.
C20_UnsupportedFailsFast ==
    \A r \in Runs :
        (Started(r) /\ ~SupportedPlatform(state[r].video_url)) =>
            /\ pc[r] \notin InIndexer
            /\ calls[r].download = 0
            /\ calls[r].upload = 0
            /\ polls[r] = 0
            /\ ~downloaded[r]
            /\ fs[local_filename] = NoFile

\* What remained of the model output of run r after fence stripping is not
\* JSON, is JSON but not an object, or is an object whose compliance_results
\* is not a sequence.
NotJson(r) == response[r] # Unset /\ ~JsonLoadsOk(json_input[r])

NotAnObject(r) ==
    response[r] # Unset /\ JsonLoadsOk(json_input[r]) /\ ~json_loads(json_input[r]).object

ResultsNotASequence(r) ==
    /\ DecodedObject(r)
    /\ "compliance_results" \in DOMAIN Decoded(r)
    /\ ~Decoded(r).compliance_results.list

\* The run raised nothing, and where it has ended it ended at END with
\* final_status = FAIL and an error recorded.
FailedInBand(r) ==
    /\ pc[r] # "raised"
    /\ pc[r] = "END" =>
          /\ state[r].final_status = "FAIL"
          /\ Errors(state[r]) # <<>>
    /\ pc[r] = "done" => http[r].code = "200" /\ http[r].status = "FAIL"

\* C21: for every model output that after fence stripping is text that is not
\* JSON, JSON that is not an object, or an object whose compliance_results is
\* not a sequence, the run reaches END with final_status = FAIL and the error
\* in errors, and no exception reaches the caller.
C21_ParseErrorsInBand ==
    \A r \in Runs :
        (NotJson(r) \/ NotAnObject(r) \/ ResultsNotASequence(r)) => FailedInBand(r)

\* The Audit Stage of run r failed with an exception its except clause caught.
AuditorCaught(r) == aud_failed[r] \in {"llm", "decode", "extract"}

\* C22: when the Audit Stage fails with a caught exception its update holds
\* errors and final_status and nothing else; the merge of that update leaves
\* compliance_results as the caller's initial list and final_report unset, as
\* they were before the stage ran, and the response is built with the defaults.
C22_AuditorFailureFrame ==
    [][\A r \in Runs :
          /\ (AuditorCaught(r) /\ pc[r] = "aud_return") =>
                /\ DOMAIN update[r] = {"errors", "final_status"}
                /\ pc'[r] = "END"
                /\ state'[r].compliance_results = state[r].compliance_results
                /\ state[r].compliance_results = InitialInputs(r, UrlShort).compliance_results
                /\ "final_report" \notin DOMAIN state[r]
                /\ "final_report" \notin DOMAIN state'[r]
          /\ (AuditorCaught(r) /\ pc'[r] = "done") =>
                /\ http'[r].code = "200"
                /\ http'[r].compliance_results = <<>>
                /\ http'[r].final_report = "No report generated."]_vars

C22_Witness ==
    \E r \in Runs :
        /\ pc[r] = "END"
        /\ aud_failed[r] = "decode"
        /\ Len(Errors(state[r])) = 1
        /\ "final_report" \notin DOMAIN state[r]
        /\ state[r].compliance_results = PyList(<<>>)

\* The list run r holds under key k.
Field(r, k) == Items(GetOr(state[r], k, PyList(<<>>)))

\* The list an update contributes to key k.
Contribution(u, k) == Items(GetOr(u, k, PyList(<<>>)))

BothMerged == \A r \in Runs : pc[r] = "merge_both"

\* C23: merging two stage updates u1 then u2 into the same accumulated value
\* gives the same errors and the same compliance_results as merging u2 then u1.
C23_MergeCommutative ==
    BothMerged =>
        \A k \in ReducerKeys : Field(1, k) = Field(2, k)

Occurrences(seq, x) == Cardinality({i \in 1..Len(seq) : seq[i] = x})

SameEntries(a, b) ==
    /\ Len(a) = Len(b)
    /\ \A i \in 1..Len(a) : Occurrences(a, a[i]) = Occurrences(b, a[i])

\* C23, amended: the two orders give lists with the same entries, each the
\* same number of times, and the same list when at most one of the two updates
\* contributes to the key.
C23_MergeCommutativeUpToOrder ==
    BothMerged =>
        \A k \in ReducerKeys :
            /\ SameEntries(Field(1, k), Field(2, k))
            /\ (Contribution(update[1], k) = <<>> \/ Contribution(update[2], k) = <<>>)
                  => Field(1, k) = Field(2, k)

C23_Witness ==
    /\ BothMerged
    /\ Contribution(update[1], "errors") # <<>>
    /\ Contribution(update[2], "errors") # <<>>
    /\ Field(1, "errors") # Field(2, "errors")
    /\ SameEntries(Field(1, "errors"), Field(2, "errors"))

\* C24: in a run whose Indexing Stage returned its failure update, the
\* Indexer's message enters errors and stays there, the Audit Stage adds no
\* compliance_results, no retrieval and no model call is made, and the final
\* state and the response have final_status = FAIL.
C24_IndexFailureNeverPasses ==
    [][\A r \in Runs :
          idx_failed'[r] # "no" =>
             /\ calls'[r].search = 0
             /\ calls'[r].llm = 0
             /\ pc'[r] # "raised"
             /\ (idx_failed[r] # "no" /\ pc[r] = "idx_return") =>
                   /\ Len(Errors(update[r])) = 1
                   /\ Errors(state'[r]) = Errors(update[r])
             /\ (idx_failed[r] # "no" /\ pc[r] \in {"auditor", "aud_return", "END"}) =>
                   /\ Len(Errors(state[r])) = 1
                   /\ Errors(state'[r]) = Errors(state[r])
             /\ pc'[r] = "aud_return" => "compliance_results" \notin DOMAIN update'[r]
             /\ pc'[r] = "END" =>
                   /\ state'[r].final_status = "FAIL"
                   /\ state'[r].compliance_results = PyList(<<>>)
             /\ pc'[r] = "done" =>
                   /\ http'[r].code = "200"
                   /\ http'[r].status = "FAIL"
                   /\ http'[r].compliance_results = <<>>]_vars

C24_Witness ==
    \E r \in Runs :
        /\ pc[r] = "done"
        /\ idx_failed[r] = "download"
        /\ calls[r].auditor = 1
        /\ http[r].status = "FAIL"
        /\ Errors(state[r]) = <<"YouTube Download Failed: ...">>

\* C25: in every state of every run, errors holds at most one entry more than
\* the list the caller supplied: a failed Indexing Stage adds one and the Audit
\* Stage then adds none, an Indexing Stage that succeeded adds none and the
\* Audit Stage at most one.
C25_AtMostOneError ==
    \A r \in Runs :
        Started(r) =>
            /\ state[r].errors.list
            /\ Len(Errors(state[r])) <=
                  Len(Items(InitialInputs(r, state[r].video_url).errors)) + 1
            /\ (idx_failed[r] # "no" /\ pc[r] = "aud_return") =>
                  "errors" \notin DOMAIN update[r]

C25_Witness ==
    \E r \in Runs :
        /\ pc[r] = "END"
        /\ idx_failed[r] = "poll"
        /\ update[r] = AuditSkipped
        /\ Len(Errors(state[r])) = 1

====
